---- MODULE Spec2Model ----
(***************************************************************************)
(* Candidate-job relevance scoring engine (SemanticJobMatcher) and the     *)
(* three matching endpoints of the API.                                    *)
(*                                                                         *)
(* Texts are strings; Python's str operations (lower, strip, find, in,     *)
(* split, slicing) are written out on them.  Scores are fixed-point        *)
(* numbers: one point is Unit units, so a float score s is the integer     *)
(* s * Unit and "rounded to 2 decimals" means "a multiple of Unit / 100".  *)
(***************************************************************************)
EXTENDS Integers, Sequences, FiniteSets, TLC

(***************************************************************************)
(* Bounds of the model.                                                    *)
(***************************************************************************)
MaxList == 2

(***************************************************************************)
(* Python str operations.                                                  *)
(***************************************************************************)
Min(a, b) == IF a <= b THEN a ELSE b
Max(a, b) == IF a >= b THEN a ELSE b

Ch(s, i) == SubSeq(s, i, i)

UpperChars == "ABCDEFGHIJKLMNOPQRSTUVWXYZ"
LowerChars == "abcdefghijklmnopqrstuvwxyz"

LowerChar(c) ==
    IF \E i \in 1..Len(UpperChars) : Ch(UpperChars, i) = c
    THEN Ch(LowerChars, CHOOSE i \in 1..Len(UpperChars) : Ch(UpperChars, i) = c)
    ELSE c

\* s.lower(), character by character (by halves, to keep the recursion shallow)
RECURSIVE Lower(_)
Lower(s) ==
    IF Len(s) = 0 THEN ""
    ELSE IF Len(s) = 1 THEN LowerChar(s)
    ELSE Lower(SubSeq(s, 1, Len(s) \div 2)) \o Lower(SubSeq(s, Len(s) \div 2 + 1, Len(s)))

\* s.strip(): from the first to the last character that is not a space
Strip(s) ==
    LET inked == { i \in 1..Len(s) : Ch(s, i) # " " }
    IN  IF inked = {} THEN ""
        ELSE SubSeq(s, CHOOSE i \in inked : \A k \in inked : i <= k,
                       CHOOSE i \in inked : \A k \in inked : i >= k)

\* s[:n]
Prefix(s, n) == SubSeq(s, 1, Min(n, Len(s)))

\* s[a:b] with 0 <= a <= b, Python slice bounds
Slice(s, a, b) == SubSeq(s, Min(a, Len(s)) + 1, Min(b, Len(s)))

\* sub in s
Contains(sub, s) ==
    \E i \in 1..(Len(s) - Len(sub) + 1) : SubSeq(s, i, i + Len(sub) - 1) = sub

\* s.find(sub): 0-based position of the first occurrence, -1 when there is none
Find(s, sub) ==
    IF Contains(sub, s)
    THEN (CHOOSE i \in 1..(Len(s) - Len(sub) + 1) :
            /\ SubSeq(s, i, i + Len(sub) - 1) = sub
            /\ \A k \in 1..(i - 1) : SubSeq(s, k, k + Len(sub) - 1) # sub) - 1
    ELSE -1

\* set(s.split()): the whitespace-separated words of s
Words(s) ==
    { SubSeq(s, a, b) : <<a, b>> \in
        { p \in (1..Len(s)) \X (1..Len(s)) :
            /\ p[1] <= p[2]
            /\ \A k \in p[1]..p[2] : Ch(s, k) # " "
            /\ (p[1] = 1 \/ Ch(s, p[1] - 1) = " ")
            /\ (p[2] = Len(s) \/ Ch(s, p[2] + 1) = " ") } }

\* sep.join(parts)
RECURSIVE Join(_, _)
Join(parts, sep) ==
    IF Len(parts) = 0 THEN ""
    ELSE IF Len(parts) = 1 THEN parts[1]
    ELSE parts[1] \o sep \o Join(Tail(parts), sep)

\* the elements of a sequence, as a set
Range(q) == { q[i] : i \in 1..Len(q) }

\* [x] when the condition holds, [] otherwise: one conditional text_parts.append
Part(cond, text) == IF cond THEN <<text>> ELSE <<>>

(***************************************************************************)
(* Fixed-point scores.                                                     *)
(***************************************************************************)
\* units per point; a float score s is the integer s * Unit
Unit == 100 * 100

\* the units of 0.01 point
Cent == Unit \div 100

Points(n) == n * Unit

\* a clamp that lost its ceiling
ClampWithoutCeiling(x) == Max(0, x)

\* max(0.0, min(100.0, x))
Clamp(x) == Max(0, Min(Points(100), x))

\* round(x, 2): to the nearest multiple of 0.01, halves to the even one
Round2(x) ==
    LET lo == (x \div Cent) * Cent
        r  == x - lo
    IN  IF 2 * r < Cent THEN lo
        ELSE IF 2 * r > Cent THEN lo + Cent
        ELSE IF (lo \div Cent) % 2 = 0 THEN lo ELSE lo + Cent

IsRounded2(x) == x % Cent = 0

(***************************************************************************)
(* Candidate and job records (the dicts handed to the matcher).            *)
(* id 0 stands for an id that is falsy in Python (0, or no 'id' key);      *)
(* experience_years is <<n>> for the number n and <<>> for None.           *)
(***************************************************************************)
Cand(id, skills, position, company, years, education) ==
    [id |-> id, skills |-> skills, current_position |-> position,
     current_company |-> company, experience_years |-> years,
     education |-> education]

Job(id, title, description, requirements, level, department, jobType, workType) ==
    [id |-> id, title |-> title, description |-> description,
     requirements |-> requirements, experience_level |-> level,
     department |-> department, job_type |-> jobType, work_type |-> workType]

CandBackend  == Cand(1, <<"Python", "Django">>, "Backend Developer", "Acme", <<6>>, <<"BSc Computer Science">>)
CandBackend2 == Cand(2, <<"Python", "Django">>, "Backend Developer", "Acme", <<6>>, <<"BSc Computer Science">>)
CandFrontend == Cand(3, <<"React", "CSS", "Vue">>, "Frontend Developer", "", <<1>>, <<>>)
CandBlank    == Cand(0, <<>>, "", "", <<>>, <<>>)

JobBackend  == Job(1, "Senior Backend Engineer", "Build APIs with Django", "Required: Python, Django. Preferred: Docker.", "senior", "Engineering", "full_time", "")
JobBackend2 == Job(2, "Senior Backend Engineer", "Build APIs with Django", "Required: Python, Django. Preferred: Docker.", "senior", "Engineering", "full_time", "")
JobFrontend == Job(3, "Frontend React Developer", "", "React, CSS", "", "", "", "remote")
JobBlank    == Job(0, "", "", "", "", "", "", "")

Candidates == {CandBackend, CandBackend2, CandFrontend, CandBlank}
Jobs == {JobBackend, JobBackend2, JobFrontend, JobBlank}

YearsIsNone(c) == Len(c.experience_years) = 0
Years(c) == c.experience_years[1]

\* The database rows the endpoints read: the candidates and jobs that have
\* an id, listed newest first (Meta.ordering is -created_at).
DbCandidates == <<CandFrontend, CandBackend2, CandBackend>>
DbJobs == <<JobFrontend, JobBackend2, JobBackend>>

\* the dict an endpoint builds from a row: candidate.experience_years or 0
ViewCandidateData(row) ==
    [row EXCEPT !.experience_years = IF YearsIsNone(row) THEN <<0>> ELSE @]

\* every record a call of the matcher can be handed
AllCandidates == Candidates \cup { ViewCandidateData(DbCandidates[i]) : i \in 1..Len(DbCandidates) }
AllJobs == Jobs

(***************************************************************************)
(* Text composition.                                                       *)
(***************************************************************************)
ExperiencePhrase(y) ==
    IF y >= 8 THEN "senior experienced"
    ELSE IF y >= 5 THEN "senior"
    ELSE IF y >= 2 THEN "mid-level"
    ELSE "junior"

_prepare_candidate_text(c) ==
    LET hasYears == ~YearsIsNone(c) /\ Years(c) # 0
        edu == IF Len(c.education) > 0 THEN c.education[1] ELSE ""
    IN Join(
        Part(Len(c.skills) > 0, "Technical skills: " \o Join(c.skills, ", "))
        \o Part(c.current_position # "", "Current role: " \o c.current_position)
        \o Part(hasYears,
                "Experience level: "
                \o (IF hasYears THEN ExperiencePhrase(Years(c)) \o " with " \o ToString(Years(c)) ELSE "")
                \o " years")
        \o Part(edu # "" /\ Len(edu) < 200, "Education: " \o edu)
        \o Part(c.current_company # "", "Working at: " \o c.current_company),
        " | ")

tech_mappings ==
    << <<".net", "C# .NET Microsoft">>,
       <<"java", "Java Spring JVM">>,
       <<"python", "Python Django Flask">>,
       <<"javascript", "JavaScript Node.js">>,
       <<"node", "Node.js JavaScript">>,
       <<"react", "React JavaScript Frontend">>,
       <<"angular", "Angular TypeScript Frontend">>,
       <<"vue", "Vue.js JavaScript Frontend">>,
       <<"php", "PHP Laravel Symfony">>,
       <<"ruby", "Ruby Rails">>,
       <<"go", "Go Golang">>,
       <<"rust", "Rust Systems">>,
       <<"c++", "C++ Systems">>,
       <<"c#", "C# .NET Microsoft">>,
       <<"swift", "Swift iOS">>,
       <<"kotlin", "Kotlin Android">>,
       <<"devops", "Docker Kubernetes AWS Azure">>,
       <<"frontend", "HTML CSS JavaScript React">>,
       <<"backend", "API Database Server">>,
       <<"fullstack", "Frontend Backend Database">>,
       <<"data", "Python SQL Analytics ML">>,
       <<"mobile", "iOS Android React Native">>,
       <<"cloud", "AWS Azure GCP Docker">> >>

_extract_core_technology(job_title) ==
    LET title_lower == Lower(job_title)
        hits == { i \in 1..Len(tech_mappings) : Contains(tech_mappings[i][1], title_lower) }
    IN  IF job_title = "" \/ hits = {} THEN ""
        ELSE tech_mappings[CHOOSE i \in hits : \A k \in hits : i <= k][2]

preferred_keywords ==
    {"preferred qualifications:", "nice to have:", "bonus:",
     "preferred:", "plus:", "additional:", "optional:"}

\* <<required_section, preferred_section>>
_separate_requirements(requirements_text) ==
    LET text_lower == Lower(requirements_text)
        found == { Find(text_lower, kw) : kw \in preferred_keywords } \ {-1}
        split_pos == IF found = {} THEN Len(requirements_text)
                     ELSE CHOOSE p \in found : \A q \in found : p <= q
        required_section == IF split_pos < Len(requirements_text)
                            THEN Strip(Prefix(requirements_text, split_pos))
                            ELSE requirements_text
        preferred_section == IF split_pos < Len(requirements_text)
                             THEN Strip(Slice(requirements_text, split_pos, Len(requirements_text)))
                             ELSE ""
    IN  IF requirements_text = "" THEN <<"", "">>
        ELSE << IF Len(required_section) > 600
                THEN Prefix(required_section, 600) \o "..." ELSE required_section,
                IF Len(preferred_section) > 400
                THEN Prefix(preferred_section, 400) \o "..." ELSE preferred_section >>

_prepare_job_text(j) ==
    LET title == j.title
        core_tech == _extract_core_technology(title)
        description == j.description
        reqs == _separate_requirements(j.requirements)
        job_type == IF j.job_type # "" THEN j.job_type ELSE j.work_type
    IN Join(
        Part(title # "", "Primary role: " \o title \o " " \o title \o " " \o title)
        \o Part(core_tech # "", "Core technology stack: " \o core_tech \o " " \o core_tech)
        \o Part(description # "", "Primary role focus: " \o Prefix(description, 500))
        \o Part(Len(description) > 500, "Additional context: " \o Slice(description, 500, 1000))
        \o Part(j.requirements # "" /\ reqs[1] # "", "Required skills: " \o reqs[1])
        \o Part(j.requirements # "" /\ reqs[2] # "", "Nice to have: " \o reqs[2])
        \o Part(j.experience_level # "", "Experience level: " \o j.experience_level)
        \o Part(j.department # "", "Department: " \o j.department)
        \o Part(job_type # "", "Job type: " \o job_type),
        " | ")

(***************************************************************************)
(* Business rules.                                                         *)
(***************************************************************************)
\* set(skill.lower() for skill in candidate_data.get('skills', []))
LowerSkills(c) == { Lower(c.skills[i]) : i \in 1..Len(c.skills) }

\* sum(1 for skill in skills if skill in text)
CountIn(skills, text) == Cardinality({ sk \in skills : Contains(sk, text) })

\* the conflict table: <<job_tech, conflicting skills for this title>>
stack_conflicts(job_title) ==
    << <<".net", IF Contains("backend", job_title) \/ Contains("api", job_title)
                 THEN {"react", "vue", "angular"} ELSE {}>>,
       <<"java", IF Contains("backend", job_title) \/ Contains("api", job_title)
                 THEN {"react", "vue", "angular"} ELSE {}>>,
       <<"python", IF Contains("backend", job_title) \/ Contains("django", job_title)
                   THEN {"react", "vue", "angular"} ELSE {}>>,
       <<"devops", IF Contains("devops", job_title)
                   THEN {"react", "vue", "angular", "html", "css"} ELSE {}>>,
       <<"frontend", IF Contains("frontend", job_title)
                     THEN {"java", ".net", "c#", "spring"} ELSE {}>>,
       <<"backend", IF Contains("backend", job_title)
                    THEN {"html", "css", "bootstrap"} ELSE {}>> >>

RECURSIVE SumSeq(_)
SumSeq(q) == IF Len(q) = 0 THEN 0 ELSE Head(q) + SumSeq(Tail(q))

\* a table-driven penalty without the cap of a rule
ConflictPenaltyUncapped(candidate_skills, job_title) ==
    LET table == stack_conflicts(job_title)
    IN SumSeq([ i \in 1..Len(table) |->
            IF Contains(table[i][1], job_title)
            THEN Cardinality(candidate_skills \cap table[i][2]) * 10 ELSE 0 ])

\* the table-driven part of the penalty, in points
ConflictPenalty(candidate_skills, job_title) ==
    LET table == stack_conflicts(job_title)
    IN SumSeq([ i \in 1..Len(table) |->
            LET conflict_count == Cardinality(candidate_skills \cap table[i][2])
            IN  IF Contains(table[i][1], job_title) /\ conflict_count > 0
                THEN Min(conflict_count * 10, 25) ELSE 0 ])

\* the fixed extra penalty for a frontend position, in points
PositionPenalty(current_position, job_title) ==
    IF Contains(".net", job_title) /\ Contains("frontend", current_position) THEN 15
    ELSE IF Contains("devops", job_title) /\ Contains("frontend", current_position) THEN 20
    ELSE IF Contains("backend", job_title) /\ Contains("frontend", current_position) THEN 10
    ELSE 0

_calculate_technology_mismatch_penalty(c, j) ==
    ConflictPenalty(LowerSkills(c), Lower(j.title))
    + PositionPenalty(Lower(c.current_position), Lower(j.title))

KnownLevels == {"entry", "junior", "mid", "senior", "lead", "principal"}

\* an experience bonus whose senior band starts above 5 years
ExperienceBonusSeniorAbove5(candidate_years, job_level) ==
    IF job_level = "entry" /\ 0 <= candidate_years /\ candidate_years <= 2 THEN 5
    ELSE IF job_level = "junior" /\ 1 <= candidate_years /\ candidate_years <= 3 THEN 5
    ELSE IF job_level = "mid" /\ 2 <= candidate_years /\ candidate_years <= 6 THEN 5
    ELSE IF job_level = "senior" /\ candidate_years > 5 THEN 5
    ELSE IF job_level = "lead" /\ candidate_years >= 7 THEN 5
    ELSE IF job_level = "principal" /\ candidate_years >= 10 THEN 5
    ELSE 0

\* the experience bonus for a candidate whose years are a number
ExperienceBonus(candidate_years, job_level) ==
    IF job_level = "entry" /\ 0 <= candidate_years /\ candidate_years <= 2 THEN 5
    ELSE IF job_level = "junior" /\ 1 <= candidate_years /\ candidate_years <= 3 THEN 5
    ELSE IF job_level = "mid" /\ 2 <= candidate_years /\ candidate_years <= 6 THEN 5
    ELSE IF job_level = "senior" /\ candidate_years >= 5 THEN 5
    ELSE IF job_level = "lead" /\ candidate_years >= 7 THEN 5
    ELSE IF job_level = "principal" /\ candidate_years >= 10 THEN 5
    ELSE 0

\* a primary bonus that goes down with every match
_calculate_primary_skills_mismatch(c, j) ==
    LET primary_reqs == _separate_requirements(j.requirements)[1]
        primary_text == Lower(j.title \o " " \o primary_reqs)
    IN  Max(15 - CountIn(LowerSkills(c), primary_text) * 3, 0)

_calculate_primary_skills_match(c, j) ==
    LET primary_reqs == _separate_requirements(j.requirements)[1]
        primary_text == Lower(j.title \o " " \o primary_reqs)
    IN  Min(CountIn(LowerSkills(c), primary_text) * 3, 15)

\* a secondary bonus of 3 points per match
_calculate_secondary_skills_match_weight_3(c, j) ==
    LET secondary_reqs == _separate_requirements(j.requirements)[2]
    IN  IF secondary_reqs # ""
        THEN Min(CountIn(LowerSkills(c), Lower(secondary_reqs)) * 3, 5)
        ELSE 0

_calculate_secondary_skills_match(c, j) ==
    LET secondary_reqs == _separate_requirements(j.requirements)[2]
    IN  IF secondary_reqs # ""
        THEN Min(CountIn(LowerSkills(c), Lower(secondary_reqs)) * 1, 5)
        ELSE 0

role_categories ==
    << <<"frontend", {"frontend", "ui", "ux", "react", "angular", "vue"}>>,
       <<"backend", {"backend", "api", "server", ".net", "java", "python"}>>,
       <<"fullstack", {"fullstack", "full-stack", "full stack"}>>,
       <<"devops", {"devops", "sre", "infrastructure", "cloud"}>>,
       <<"mobile", {"mobile", "ios", "android", "react native"}>>,
       <<"data", {"data", "analyst", "scientist", "ml", "ai"}>> >>

\* the first category one of whose keywords occurs in the text, "" when none does
RoleCategory(text) ==
    LET hits == { i \in 1..Len(role_categories) :
                    \E kw \in role_categories[i][2] : Contains(kw, text) }
    IN  IF hits = {} THEN ""
        ELSE role_categories[CHOOSE i \in hits : \A k \in hits : i <= k][1]

\* an alignment that sees the opposite specializations in one direction only
RoleAlignmentOneWay(candidate_category, job_category) ==
    IF candidate_category # "" /\ job_category # ""
    THEN IF candidate_category = job_category THEN 8
         ELSE IF candidate_category = "fullstack" \/ job_category = "fullstack" THEN 5
         ELSE IF candidate_category = "frontend" /\ job_category = "backend" THEN -5
         ELSE -2
    ELSE 0

RoleAlignment(candidate_category, job_category) ==
    IF candidate_category # "" /\ job_category # ""
    THEN IF candidate_category = job_category THEN 8
         ELSE IF candidate_category = "fullstack" \/ job_category = "fullstack" THEN 5
         ELSE IF \/ (candidate_category = "frontend" /\ job_category = "backend")
                 \/ (candidate_category = "backend" /\ job_category = "frontend") THEN -5
         ELSE -2
    ELSE 0

_calculate_role_alignment(c, j) ==
    RoleAlignment(RoleCategory(Lower(c.current_position)), RoleCategory(Lower(j.title)))

important_words == {"senior", "lead", "principal", "developer", "engineer", "manager"}

_calculate_position_relevance(c, j) ==
    LET current_position == Lower(c.current_position)
        job_title == Lower(j.title)
        common_words == Words(current_position) \cap Words(job_title)
        weighted_score == 3 * Cardinality(common_words \cap important_words)
                          + Cardinality(common_words \ important_words)
    IN  IF current_position = "" \/ job_title = "" THEN 0
        ELSE IF Contains(current_position, job_title) \/ Contains(job_title, current_position) THEN 10
        ELSE Min(weighted_score, 8)

\* the comparisons of experience_years raise TypeError when it is None and
\* the chain reaches one (the job level is one of the known levels)
BusinessRulesRaise(c, j) == YearsIsNone(c) /\ Lower(j.experience_level) \in KnownLevels

\* the sum of the adjustments, in points (when nothing raises)
Adjustments(c, j) ==
    (IF YearsIsNone(c) THEN 0 ELSE ExperienceBonus(Years(c), Lower(j.experience_level)))
    + _calculate_primary_skills_match(c, j)
    + _calculate_secondary_skills_match(c, j)
    + _calculate_role_alignment(c, j)
    + _calculate_position_relevance(c, j)
    - _calculate_technology_mismatch_penalty(c, j)

\* what _apply_business_rules does for the two records
BusinessRules(c, j) == [raises |-> BusinessRulesRaise(c, j), adjustments |-> Adjustments(c, j)]

\* an adjuster that leaves the base score as it is
_apply_no_rules(rules, base_score) == base_score

\* base_score and the result in units; rules is BusinessRules(c, j)
_apply_business_rules(rules, base_score) == base_score + Points(rules.adjustments)

(***************************************************************************)
(* Keyword fallback.                                                       *)
(***************************************************************************)
\* {skill.lower().strip() for skill in skills}
KeywordSkills(c) == { Strip(Lower(c.skills[i])) : i \in 1..Len(c.skills) }

\* a base score that divides by the length of the skill list
KeywordBaseScorePerListedSkill(c, j) ==
    LET candidate_skills == KeywordSkills(c)
        reqs == _separate_requirements(j.requirements)
        primary_text == Lower(Lower(j.title) \o " " \o reqs[1])
        secondary_text == Lower(j.description \o " " \o reqs[2])
    IN  IF Len(c.skills) > 0
        THEN (CountIn(candidate_skills, primary_text) * Points(50)) \div Len(c.skills)
             + (CountIn(candidate_skills, secondary_text) * Points(20)) \div Len(c.skills)
        ELSE Points(10)

KeywordBaseScore(c, j) ==
    LET candidate_skills == KeywordSkills(c)
        reqs == _separate_requirements(j.requirements)
        primary_text == Lower(Lower(j.title) \o " " \o reqs[1])
        secondary_text == Lower(j.description \o " " \o reqs[2])
        n == Cardinality(candidate_skills)
    IN  IF n > 0
        THEN (CountIn(candidate_skills, primary_text) * Points(50)) \div n
             + (CountIn(candidate_skills, secondary_text) * Points(20)) \div n
        ELSE Points(10)

\* lines 864-872, the end of the try block: the business rules, the clamp
\* and the rounding.  The outcome of a call is a record: raised (an
\* exception leaves it) and the score it returns otherwise.
KeywordTry(rules, base_score) ==
    [raised |-> rules.raises,
     score |-> IF rules.raises THEN 0
               ELSE Clamp(Round2(_apply_business_rules(rules, base_score)))]

\* a method without the except branch
KeywordUncaught(tried) == tried

\* lines 874-876: except Exception: return 0.0
KeywordExcept(tried) == [raised |-> FALSE, score |-> IF tried.raised THEN 0 ELSE tried.score]

KeywordScore(rules, base_score) == KeywordExcept(KeywordTry(rules, base_score))

_calculate_keyword_match_score(c, j) == KeywordScore(BusinessRules(c, j), KeywordBaseScore(c, j))

(***************************************************************************)
(* The embedding model and the cache.                                      *)
(*                                                                         *)
(* SentenceTransformer.encode is a deterministic function from a text to   *)
(* a vector; here a fixed table of two-dimensional integer vectors of      *)
(* integer norm, indexed by the length of the text.  ZeroVector stands for *)
(* np.zeros(384).                                                          *)
(***************************************************************************)
model_name == "all-MiniLM-L6-v2"

EmbeddingTable ==
    << <<3, 4>>, <<-3, -4>>, <<0, 5>>, <<12, 5>>, <<4, 3>>, <<5, 12>>, <<-4, 3>> >>

Encode(text) == EmbeddingTable[(Len(text) % Len(EmbeddingTable)) + 1]

ZeroVector == <<0, 0>>

Dot(u, v) == u[1] * v[1] + u[2] * v[2]

Norm(v) == CHOOSE n \in 0..Dot(v, v) : n * n = Dot(v, v)

\* float(cosine_similarity(u, v)[0][0]) * 100, in units; a zero vector
\* normalises to itself, so its similarity to anything is 0
SimilarityScore(u, v) ==
    IF Norm(u) = 0 \/ Norm(v) = 0 THEN 0
    ELSE (Dot(u, v) * Points(100)) \div (Norm(u) * Norm(v))

\* the SHA-256 prefix is taken to be collision-free: the key is the
\* normalised text itself
_get_cache_key(text, prefix) == prefix \o "_" \o model_name \o "_" \o Lower(Strip(text))

MatchKey(candidate_text, job_text) == candidate_text \o "||" \o job_text

\* what _get_embedding needs of a text: text.strip() and the cache key
Text(text) == [stripped |-> Strip(text), cache_key |-> _get_cache_key(text, "embedding")]

\* Everything calculate_job_match_score derives from the two records alone:
\* the two texts, the key of the score cache, the business rules and the
\* outcome of _calculate_keyword_match_score (keyword).
PrepareWith(candidate_text, job_text, rules, keyword) ==
    [candidate_text |-> Text(candidate_text),
     job_text |-> Text(job_text),
     cache_key |-> _get_cache_key(MatchKey(candidate_text, job_text), "similarity_v2"),
     rules |-> rules,
     keyword_score |-> keyword.score,
     keyword_raised |-> keyword.raised]

Prepare(c, j) ==
    PrepareWith(_prepare_candidate_text(c), _prepare_job_text(j),
                BusinessRules(c, j), _calculate_keyword_match_score(c, j))

\* These depend on the two records only: they are evaluated once per pair
\* of records and looked up afterwards.
Prepared == [c \in AllCandidates |-> [j \in AllJobs |-> Prepare(c, j)]]

\* What the environment does to one operation: nothing, the model's encode
\* raises, the cache backend raises on every call, or it raises on set only.
Envs == {"ok", "encode_fails", "cache_down", "cache_set_down"}

GetRaises(env) == env = "cache_down"
SetRaises(env) == env \in {"cache_down", "cache_set_down"}

\* The cache is a function from the keys it holds to their values.  A run
\* of the matcher threads a record st: the cache and the numbers of encode,
\* cache.get and cache.set calls made so far in the operation.
NewRun(cache0) == [cache |-> cache0, encodes |-> 0, gets |-> 0, sets |-> 0]

DictSet(cache0, key, value) ==
    [k \in DOMAIN cache0 \cup {key} |-> IF k = key THEN value ELSE cache0[k]]

\* result: st, the embedding, none (the method returned None), raised (an
\* exception leaves the method), failed (the except branch returned zeros)
EmbeddingResult(st, embedding, none, raised, failed) ==
    [st |-> st, embedding |-> embedding, none |-> none, raised |-> raised, failed |-> failed]

\* _get_embedding that returns the encoded vector without storing it
_get_embedding_without_set(st, available, text, env) ==
    IF ~available THEN EmbeddingResult(st, ZeroVector, TRUE, FALSE, FALSE)
    ELSE IF text.stripped = "" THEN EmbeddingResult(st, ZeroVector, FALSE, FALSE, FALSE)
    ELSE EmbeddingResult([st EXCEPT !.gets = @ + 1, !.encodes = @ + 1],
                         Encode(text.stripped), FALSE, FALSE, env = "encode_fails")

_get_embedding(st, available, text, env) ==
    IF ~available THEN EmbeddingResult(st, ZeroVector, TRUE, FALSE, FALSE)
    ELSE IF text.stripped = "" THEN EmbeddingResult(st, ZeroVector, FALSE, FALSE, FALSE)
    ELSE LET got == [st EXCEPT !.gets = @ + 1]
             called == [got EXCEPT !.encodes = @ + 1]
             tried == [called EXCEPT !.sets = @ + 1]
         IN  IF GetRaises(env) THEN EmbeddingResult(got, ZeroVector, FALSE, TRUE, FALSE)
             ELSE IF text.cache_key \in DOMAIN st.cache
             THEN EmbeddingResult(got, st.cache[text.cache_key], FALSE, FALSE, FALSE)
             ELSE IF env = "encode_fails" THEN EmbeddingResult(called, ZeroVector, FALSE, FALSE, TRUE)
             ELSE IF SetRaises(env) THEN EmbeddingResult(tried, ZeroVector, FALSE, FALSE, TRUE)
             ELSE EmbeddingResult(
                    [tried EXCEPT !.cache = DictSet(@, text.cache_key, Encode(text.stripped))],
                    Encode(text.stripped), FALSE, FALSE, FALSE)

(***************************************************************************)
(* calculate_job_match_score.                                              *)
(* result: st, the score returned, the path taken, whether an encode       *)
(* failure went into the score, and raised: an exception leaves the call.  *)
(***************************************************************************)
ScoreResult(st, score, path, degraded) ==
    [st |-> st, score |-> score, path |-> path, degraded |-> degraded, raised |-> FALSE]

\* In the operators below p is Prepared[c][j], what the call derives from
\* its two records.

\* return self._calculate_keyword_match_score(candidate_data, job_data):
\* what the keyword method returns, or the exception that leaves it
KeywordResult(st, p, path) ==
    [st |-> st, score |-> p.keyword_score, path |-> path, degraded |-> FALSE,
     raised |-> p.keyword_raised]

\* the except branch of calculate_job_match_score
ScoreOnException(st, p) == KeywordResult(st, p, "exception")

\* lines 626-648: both embeddings are there, ce and je being what
\* _get_embedding returned for the candidate text and the job text
ScoreFromEmbeddings(ce, je, p, env) ==
    LET score == Clamp(_apply_business_rules(p.rules, SimilarityScore(ce.embedding, je.embedding)))
        tried == [je.st EXCEPT !.sets = @ + 1]
    IN  IF ce.none \/ je.none
        THEN KeywordResult(je.st, p, "embedding_none")
        ELSE IF p.rules.raises THEN ScoreOnException(je.st, p)
        ELSE IF SetRaises(env) THEN ScoreOnException(tried, p)
        ELSE ScoreResult([tried EXCEPT !.cache = DictSet(@, p.cache_key, score)],
                         Round2(score), "embedding", ce.failed \/ je.failed)

\* line 624: the job's embedding je is there
ScoreFromJobEmbedding(ce, je, p, env) ==
    IF je.raised THEN ScoreOnException(je.st, p)
    ELSE ScoreFromEmbeddings(ce, je, p, env)

\* lines 623-648: the candidate's embedding ce is there
ScoreFromCandidateEmbedding(ce, available, p, env) ==
    IF ce.raised THEN ScoreOnException(ce.st, p)
    ELSE ScoreFromJobEmbedding(ce, _get_embedding(ce.st, available, p.job_text, env), p, env)

\* lines 622-648: the score cache missed
ScoreOnMiss(st, available, p, env) ==
    ScoreFromCandidateEmbedding(_get_embedding(st, available, p.candidate_text, env),
                                available, p, env)

\* lines 606-648: past the check of the available flag
ScoreWithModel(st, available, p, env) ==
    LET got == [st EXCEPT !.gets = @ + 1]
    IN  IF p.candidate_text.stripped = "" \/ p.job_text.stripped = ""
        THEN ScoreResult(st, 0, "empty", FALSE)
        ELSE IF GetRaises(env) THEN ScoreOnException(got, p)
        ELSE IF p.cache_key \in DOMAIN st.cache
        THEN ScoreResult(got, st.cache[p.cache_key], "cache_hit", FALSE)
        ELSE ScoreOnMiss(got, available, p, env)

\* lines 602-604 and the rest
ScorePrepared(st, available, p, env) ==
    IF ~available THEN KeywordResult(st, p, "unavailable")
    ELSE ScoreWithModel(st, available, p, env)

\* a scorer that does not look at the available flag
calculate_job_match_score_unchecked(st, available, c, j, env) ==
    ScoreWithModel(st, available, Prepared[c][j], env)

calculate_job_match_score(st, available, c, j, env) ==
    ScorePrepared(st, available, Prepared[c][j], env)

(***************************************************************************)
(* Ranked lists.                                                           *)
(***************************************************************************)
\* an insertion that puts e before the entries of equal score
InsertBeforeEqual(sorted, e) ==
    LET k == Cardinality({ i \in 1..Len(sorted) : sorted[i].score > e.score })
    IN  SubSeq(sorted, 1, k) \o <<e>> \o SubSeq(sorted, k + 1, Len(sorted))

\* entries with a score at least e's stay before e: list.sort is stable,
\* also with reverse=True
InsertDescending(sorted, e) ==
    LET k == Cardinality({ i \in 1..Len(sorted) : sorted[i].score >= e.score })
    IN  SubSeq(sorted, 1, k) \o <<e>> \o SubSeq(sorted, k + 1, Len(sorted))

\* entries.sort(key=lambda x: x[1], reverse=True)
RECURSIVE SortDescending(_)
SortDescending(entries) ==
    IF Len(entries) = 0 THEN <<>>
    ELSE InsertDescending(SortDescending(SubSeq(entries, 1, Len(entries) - 1)),
                          entries[Len(entries)])

Entry(item, score) == [item |-> item, score |-> score]

\* a loop that lowercases the title of the job it scored
AppendJobLowered(acc, job, r) ==
    [st |-> r.st,
     entries |-> Append(acc.entries,
                        Entry([job EXCEPT !.title = Lower(@)], IF r.raised THEN 0 ELSE r.score)),
     caught |-> acc.caught + (IF r.raised THEN 1 ELSE 0)]

\* One turn of the loop of find_best_matching_jobs: r is what
\* calculate_job_match_score returned for job; acc holds st and the entries
\* appended so far, which are the calls made, in order, and caught, the
\* number of times the except branch of the loop ran (it appends 0.0).
AppendJob(acc, job, r) ==
    [st |-> r.st,
     entries |-> Append(acc.entries, Entry(job, IF r.raised THEN 0 ELSE r.score)),
     caught |-> acc.caught + (IF r.raised THEN 1 ELSE 0)]

\* job_scores = []
NoEntries(st) == [st |-> st, entries |-> <<>>, caught |-> 0]

RECURSIVE ScoreJobs(_, _, _, _, _)
ScoreJobs(acc, available, c, jobs, env) ==
    IF Len(jobs) = 0 THEN acc
    ELSE ScoreJobs(AppendJob(acc, Head(jobs),
                             calculate_job_match_score(acc.st, available, c, Head(jobs), env)),
                   available, c, Tail(jobs), env)

\* lines 901-902: the sort and job_scores[:top_k]
Ranked(scored, top_k) ==
    [st |-> scored.st, calls |-> scored.entries, caught |-> scored.caught,
     result |-> Prefix(SortDescending(scored.entries), top_k)]

\* a ranking that forgot to sort
find_best_matching_jobs_unsorted(st, available, c, jobs, top_k, env) ==
    LET scored == ScoreJobs(NoEntries(st), available, c, jobs, env)
    IN  [st |-> scored.st, calls |-> scored.entries, caught |-> scored.caught,
         result |-> Prefix(scored.entries, top_k)]

find_best_matching_jobs(st, available, c, jobs, top_k, env) ==
    Ranked(ScoreJobs(NoEntries(st), available, c, jobs, env), top_k)

\* a filter that leaves out the scores equal to the threshold
ExceedsThreshold(score, threshold) == score > threshold

\* score >= threshold
ReachesThreshold(score, threshold) == score >= threshold

\* One turn of the loop of find_matching_candidates: r is what
\* calculate_job_match_score returned for candidate; acc holds st, the
\* entries appended, all the calls made, and caught, the number of times
\* the except branch of the loop ran (it appends nothing).
AppendCandidate(acc, candidate, threshold, r) ==
    [st |-> r.st,
     entries |-> acc.entries \o Part(~r.raised /\ ReachesThreshold(r.score, threshold),
                                     Entry(candidate, r.score)),
     calls |-> Append(acc.calls, Entry(candidate, r.score)),
     caught |-> acc.caught + (IF r.raised THEN 1 ELSE 0)]

RECURSIVE ScoreCandidates(_, _, _, _, _, _)
ScoreCandidates(acc, available, j, candidates, threshold, env) ==
    IF Len(candidates) = 0 THEN acc
    ELSE ScoreCandidates(
           AppendCandidate(acc, Head(candidates), threshold,
                           calculate_job_match_score(acc.st, available, Head(candidates), j, env)),
           available, j, Tail(candidates), threshold, env)

\* line 927: the sort
SortedCandidates(scored) ==
    [st |-> scored.st, calls |-> scored.calls, caught |-> scored.caught,
     result |-> SortDescending(scored.entries)]

find_matching_candidates(st, available, j, candidates, threshold, env) ==
    SortedCandidates(ScoreCandidates([st |-> st, entries |-> <<>>, calls |-> <<>>, caught |-> 0],
                                     available, j, candidates, threshold, env))

\* a batch that skips nothing
NeverFalsy(id) == FALSE

\* not candidate_id, not job_id
Falsy(id) == id = 0

\* one turn of the inner loop of batch_calculate_matches; its except
\* branch appends 0.0
AppendMatch(acc, job, r) ==
    [st |-> r.st,
     entries |-> Append(acc.entries, Entry(job.id, IF r.raised THEN 0 ELSE r.score)),
     caught |-> acc.caught + (IF r.raised THEN 1 ELSE 0)]

\* the inner loop: jobs without an id are skipped
RECURSIVE BatchJobs(_, _, _, _, _)
BatchJobs(acc, available, c, jobs, env) ==
    IF Len(jobs) = 0 THEN acc
    ELSE IF Falsy(Head(jobs).id) THEN BatchJobs(acc, available, c, Tail(jobs), env)
    ELSE BatchJobs(AppendMatch(acc, Head(jobs),
                               calculate_job_match_score(acc.st, available, c, Head(jobs), env)),
                   available, c, Tail(jobs), env)

\* lines 961-963: the candidate's list is sorted and stored under its id;
\* acc holds st, the dict built so far, a function from the candidate ids
\* to their sorted lists, and caught
StoreRow(acc, candidate, row) ==
    [st |-> row.st, caught |-> row.caught,
     result |-> DictSet(acc.result, candidate.id, SortDescending(row.entries))]

\* the outer loop: candidates without an id are skipped
RECURSIVE BatchCandidates(_, _, _, _, _)
BatchCandidates(acc, available, candidates, jobs, env) ==
    IF Len(candidates) = 0 THEN acc
    ELSE IF Falsy(Head(candidates).id)
    THEN BatchCandidates(acc, available, Tail(candidates), jobs, env)
    ELSE BatchCandidates(
           StoreRow(acc, Head(candidates),
                    BatchJobs([st |-> acc.st, entries |-> <<>>, caught |-> acc.caught],
                              available, Head(candidates), jobs, env)),
           available, Tail(candidates), jobs, env)

batch_calculate_matches(st, available, candidates, jobs, env) ==
    BatchCandidates([st |-> st, result |-> <<>>, caught |-> 0], available, candidates, jobs, env)

(***************************************************************************)
(* The API endpoints (views.py).                                           *)
(***************************************************************************)
MapSeq(Op(_), q) == [i \in 1..Len(q) |-> Op(q[i])]

RECURSIVE SelectEntries(_, _)
SelectEntries(entries, min_score) ==
    IF Len(entries) = 0 THEN <<>>
    ELSE Part(Head(entries).score >= min_score, Head(entries)) \o SelectEntries(Tail(entries), min_score)

\* views.py:1539
calculate_job_match_level(match_score) ==
    IF match_score >= Points(75) THEN "high"
    ELSE IF match_score >= Points(50) THEN "medium" ELSE "low"

\* views.py:1628
find_matching_jobs_level(score) ==
    IF score >= Points(75) THEN "high"
    ELSE IF score >= Points(50) THEN "medium" ELSE "low"

\* a classification with a mistyped threshold
find_matching_candidates_level_85(score) ==
    IF score >= Points(85) THEN "high"
    ELSE IF score >= Points(50) THEN "medium" ELSE "low"

\* views.py:1722
find_matching_candidates_level(score) ==
    IF score >= Points(75) THEN "high"
    ELSE IF score >= Points(50) THEN "medium" ELSE "low"

\* views.py:460
matching_jobs_level(score) ==
    IF score >= Points(75) THEN "high"
    ELSE IF score >= Points(50) THEN "medium" ELSE "low"

Reported(id, score, level) == [id |-> id, match_score |-> score, match_level |-> level]

\* the responses, r being what the matcher returned to the view
JobMatchResponse(r, job) ==
    [st |-> r.st,
     response |-> <<Reported(job.id, r.score, calculate_job_match_level(r.score))>>]

FindMatchingJobsResponse(r) ==
    [st |-> r.st,
     response |-> [i \in 1..Len(r.kept) |->
        Reported(r.kept[i].item.id, r.kept[i].score, find_matching_jobs_level(r.kept[i].score))]]

MatchingJobsResponse(r) ==
    [st |-> r.st,
     response |-> [i \in 1..Len(r.kept) |->
        Reported(r.kept[i].item.id, r.kept[i].score, matching_jobs_level(r.kept[i].score))]]

FindMatchingCandidatesResponse(r) ==
    [st |-> r.st,
     response |-> [i \in 1..Len(r.kept) |->
        Reported(r.kept[i].item.id, r.kept[i].score,
                 find_matching_candidates_level(r.kept[i].score))]]

\* views.py:1612-1615: the matches of at least min_score
KeptJobs(r, min_score) == [st |-> r.st, kept |-> SelectEntries(r.result, min_score)]

\* views.py:1709: matching_candidates[:limit]
KeptCandidates(r, limit) == [st |-> r.st, kept |-> Prefix(r.result, limit)]

\* POST calculate_job_match: result st and the response
calculate_job_match(st, available, candidate, job, env) ==
    JobMatchResponse(
        calculate_job_match_score(st, available, ViewCandidateData(candidate), job, env), job)

\* GET find_matching_jobs
find_matching_jobs(st, available, candidate, limit, min_score, env) ==
    FindMatchingJobsResponse(
        KeptJobs(find_best_matching_jobs(st, available, ViewCandidateData(candidate),
                                         DbJobs, limit, env), min_score))

\* GET CandidateViewSet.matching_jobs
matching_jobs(st, available, candidate, limit, min_score, env) ==
    MatchingJobsResponse(
        KeptJobs(find_best_matching_jobs(st, available, ViewCandidateData(candidate),
                                         DbJobs, limit, env), min_score))

\* GET find_matching_candidates
find_matching_candidates_view(st, available, job, limit, min_score, env) ==
    FindMatchingCandidatesResponse(
        KeptCandidates(find_matching_candidates(st, available, job,
                           MapSeq(ViewCandidateData, DbCandidates), min_score, env), limit))

(***************************************************************************)
(* The state machine.                                                      *)
(***************************************************************************)
VARIABLES
    available,   \* SemanticJobMatcher.available
    cache,       \* django.core.cache.cache
    last         \* the call last made and what it returned; op "none" once
                 \* the caller has taken the result

vars == <<available, cache, last>>

\* the lists a caller passes: no record twice, at most MaxList records
ListsOf(S) ==
    { q \in UNION { [1..n -> S] : n \in 0..MaxList } :
        \A a, b \in 1..Len(q) : a # b => q[a] # q[b] }

TopKs == 0..(MaxList + 1)

Thresholds == {Points(50), Points(80)}

Idle == last.op = "none"

Stats(st) == [encodes |-> st.encodes, gets |-> st.gets, sets |-> st.sets]

\* __init__ and _load_model: available is ML_DEPENDENCIES_AVAILABLE, and
\* False when loading the model raised
Init ==
    /\ available \in BOOLEAN
    /\ cache = <<>>
    /\ last = [op |-> "none"]

ScoreCall(c, j, env, prev) ==
    \E r \in {calculate_job_match_score(NewRun(cache), available, c, j, env)} :
        /\ cache' = r.st.cache
        /\ last' = [op |-> "score", cand |-> c, job |-> j, env |-> env,
                    score |-> r.score, path |-> r.path, degraded |-> r.degraded,
                    raised |-> r.raised, stats |-> Stats(r.st), prev |-> prev]
        /\ UNCHANGED available

\* a caller calls calculate_job_match_score
Score ==
    /\ Idle
    /\ \E c \in Candidates, j \in Jobs, env \in Envs : ScoreCall(c, j, env, <<>>)

\* the caller calls it again with the same records
ScoreAgain ==
    /\ last.op = "score"
    /\ \E env \in Envs :
         ScoreCall(last.cand, last.job, env,
                   <<[score |-> last.score, path |-> last.path, env |-> last.env]>>)

FindBest ==
    /\ Idle
    /\ \E c \in Candidates, jobs \in ListsOf(Jobs), top_k \in TopKs, env \in Envs :
         \E r \in {find_best_matching_jobs(NewRun(cache), available, c, jobs, top_k, env)} :
             /\ cache' = r.st.cache
             /\ last' = [op |-> "find_best", cand |-> c, jobs |-> jobs, top_k |-> top_k,
                         env |-> env, result |-> r.result, calls |-> r.calls,
                         caught |-> r.caught, stats |-> Stats(r.st)]
             /\ UNCHANGED available

FindCandidates ==
    /\ Idle
    /\ \E j \in Jobs, cands \in ListsOf(Candidates), threshold \in Thresholds, env \in Envs :
         \E r \in {find_matching_candidates(NewRun(cache), available, j, cands, threshold, env)} :
             /\ cache' = r.st.cache
             /\ last' = [op |-> "find_candidates", job |-> j, cands |-> cands,
                         threshold |-> threshold, env |-> env, result |-> r.result,
                         calls |-> r.calls, caught |-> r.caught, stats |-> Stats(r.st)]
             /\ UNCHANGED available

Batch ==
    /\ Idle
    /\ \E cands \in ListsOf(Candidates), jobs \in ListsOf(Jobs), env \in Envs :
         \E r \in {batch_calculate_matches(NewRun(cache), available, cands, jobs, env)} :
             /\ cache' = r.st.cache
             /\ last' = [op |-> "batch", cands |-> cands, jobs |-> jobs, env |-> env,
                         result |-> r.result, caught |-> r.caught, stats |-> Stats(r.st)]
             /\ UNCHANGED available

Respond(view, r) ==
    /\ cache' = r.st.cache
    /\ last' = [op |-> "view", view |-> view, response |-> r.response]
    /\ UNCHANGED available

CalculateJobMatchView ==
    /\ Idle
    /\ \E c \in Range(DbCandidates), j \in Range(DbJobs), env \in Envs :
         Respond("calculate_job_match", calculate_job_match(NewRun(cache), available, c, j, env))

FindMatchingJobsView ==
    /\ Idle
    /\ \E c \in Range(DbCandidates), limit \in TopKs, min_score \in Thresholds, env \in Envs :
         Respond("find_matching_jobs",
                 find_matching_jobs(NewRun(cache), available, c, limit, min_score, env))

MatchingJobsView ==
    /\ Idle
    /\ \E c \in Range(DbCandidates), limit \in TopKs, min_score \in Thresholds, env \in Envs :
         Respond("matching_jobs",
                 matching_jobs(NewRun(cache), available, c, limit, min_score, env))

FindMatchingCandidatesView ==
    /\ Idle
    /\ \E j \in Range(DbJobs), limit \in TopKs, min_score \in Thresholds, env \in Envs :
         Respond("find_matching_candidates",
                 find_matching_candidates_view(NewRun(cache), available, j, limit, min_score, env))

\* clear_caches: cache.clear()
ClearCaches ==
    /\ Idle
    /\ cache # <<>>
    /\ cache' = <<>>
    /\ UNCHANGED <<available, last>>

\* the caller takes the result
Return ==
    /\ ~Idle
    /\ last' = [op |-> "none"]
    /\ UNCHANGED <<available, cache>>

Next ==
    \/ Score
    \/ ScoreAgain
    \/ FindBest
    \/ FindCandidates
    \/ Batch
    \/ CalculateJobMatchView
    \/ FindMatchingJobsView
    \/ MatchingJobsView
    \/ FindMatchingCandidatesView
    \/ ClearCaches
    \/ Return

Spec == Init /\ [][Next]_vars

(***************************************************************************)
(* Properties.                                                             *)
(***************************************************************************)
\* the scores the last call of the matcher returned
ReportedScores ==
    CASE last.op = "score" -> {last.score}
      [] last.op \in {"find_best", "find_candidates"} ->
            { last.result[i].score : i \in 1..Len(last.result) }
      [] last.op = "batch" ->
            UNION { { last.result[id][i].score : i \in 1..Len(last.result[id]) } :
                    id \in DOMAIN last.result }
      [] OTHER -> {}

\* C1: every score returned by calculate_job_match_score, and every score in
\* a result of find_best_matching_jobs, find_matching_candidates and
\* batch_calculate_matches, lies between 0 and 100, on every path.
C1_ScoreWithinBounds == \A s \in ReportedScores : 0 <= s /\ s <= Points(100)

\* the embedding path returned a score that the clamp cut down to 100
C1_Witness ==
    /\ last.op = "score"
    /\ last.path = "embedding"
    /\ last.score = Points(100)
    /\ SimilarityScore(Encode(Prepared[last.cand][last.job].candidate_text.stripped),
                       Encode(Prepared[last.cand][last.job].job_text.stripped))
       + Points(Prepared[last.cand][last.job].rules.adjustments) > Points(100)

\* C2: two calls in a row with the same records, nothing failing in either,
\* return the same score.
C2_RepeatedCallSameScore ==
    (last.op = "score" /\ last.prev # <<>> /\ last.env = "ok" /\ last.prev[1].env = "ok")
        => last.score = last.prev[1].score

\* C3: every score returned is a whole number of hundredths.
C3_ScoreRoundedToTwoDecimals ==
    last.op = "score" => IsRounded2(last.score)

\* C9: when the model's encode call raises for a text of the pair, the score
\* returned is the keyword score of the pair.
C9_EncodeFailureFallsBackToKeyword ==
    (last.op = "score" /\ available /\ last.env = "encode_fails" /\ last.stats.encodes > 0)
        => last.score = Prepared[last.cand][last.job].keyword_score

NonIncreasing(entries) ==
    \A a, b \in 1..Len(entries) : a < b => entries[a].score >= entries[b].score

Items(entries) == { entries[i].item : i \in 1..Len(entries) }

\* the position of a record in a list that holds it once
PositionIn(q, x) == CHOOSE i \in 1..Len(q) : q[i] = x

\* C4: find_best_matching_jobs returns min(top_k, number of jobs) entries in
\* non-increasing score order, each the job and score of one of the calls of
\* calculate_job_match_score it made, no job twice, and no job left out has
\* a score above that of a job in the result.
C4_BestJobsAreTheTopK ==
    last.op = "find_best" =>
        /\ Len(last.result) = Min(last.top_k, Len(last.jobs))
        /\ NonIncreasing(last.result)
        /\ \A i \in 1..Len(last.result) :
             /\ last.result[i].item \in Range(last.jobs)
             /\ last.calls[PositionIn(last.jobs, last.result[i].item)] = last.result[i]
        /\ \A a, b \in 1..Len(last.result) : a # b => last.result[a].item # last.result[b].item
        /\ \A k \in 1..Len(last.calls) :
             last.calls[k].item \notin Items(last.result) =>
                \A i \in 1..Len(last.result) : last.calls[k].score <= last.result[i].score

\* two jobs scored in increasing order, the better one alone returned
C4_Witness ==
    /\ last.op = "find_best"
    /\ Len(last.jobs) = 2
    /\ last.top_k = 1
    /\ last.calls[1].score < last.calls[2].score
    /\ last.result = <<last.calls[2]>>

RankedInput == IF last.op = "find_best" THEN last.jobs ELSE last.cands

C6_CandidatesAtOrAboveThreshold ==
    last.op = "find_candidates" =>
        /\ NonIncreasing(last.result)
        /\ Items(last.result)
           = { last.calls[k].item : k \in { k \in 1..Len(last.calls) :
                                              last.calls[k].score >= last.threshold } }
        /\ \A i \in 1..Len(last.result) :
             last.calls[PositionIn(last.cands, last.result[i].item)] = last.result[i]
        /\ \A a, b \in 1..Len(last.result) : a # b => last.result[a].item # last.result[b].item

\* a pool of two of which exactly one reaches the threshold of 80, with a
\* score equal to it
C6_Witness ==
    /\ last.op = "find_candidates"
    /\ last.threshold = Points(80)
    /\ Len(last.cands) = 2
    /\ Len(last.result) = 1
    /\ last.result[1].score = Points(80)
    /\ \E k \in 1..2 : last.calls[k].score < Points(80)

\* C7 as claimed: the result has, for every candidate and every job of the
\* input, exactly one entry for the job in the list of the candidate's id.
C7_FullCrossProduct ==
    last.op = "batch" =>
        \A c \in Range(last.cands) :
            /\ c.id \in DOMAIN last.result
            /\ \A j \in Range(last.jobs) :
                 Cardinality({ i \in 1..Len(last.result[c.id]) :
                                 last.result[c.id][i].item = j.id }) = 1

\* C7 as amended: the same for the candidates and jobs that have an id, the
\* others being skipped; and each list is in non-increasing score order.
C7_CrossProductOfRecordsWithId ==
    last.op = "batch" =>
        /\ DOMAIN last.result = { c.id : c \in { c \in Range(last.cands) : c.id # 0 } }
        /\ \A id \in DOMAIN last.result :
             /\ NonIncreasing(last.result[id])
             /\ Len(last.result[id]) = Cardinality({ j \in Range(last.jobs) : j.id # 0 })
             /\ \A j \in Range(last.jobs) :
                  Cardinality({ i \in 1..Len(last.result[id]) :
                                  last.result[id][i].item = j.id })
                  = IF j.id # 0 THEN 1 ELSE 0

\* a batch with a candidate and a job without id among those with one
C7_Witness ==
    /\ last.op = "batch"
    /\ \E c \in Range(last.cands) : c.id = 0
    /\ \E j \in Range(last.jobs) : j.id = 0
    /\ \E id \in DOMAIN last.result : Len(last.result[id]) = 1

\* C8: in every response, the level is high exactly for the scores of 75
\* and more, medium exactly from 50 to below 75, low exactly below 50.
C8_LevelFollowsScore ==
    last.op = "view" =>
        \A i \in 1..Len(last.response) :
            LET score == last.response[i].match_score
                level == last.response[i].match_level
            IN  /\ level = "high" <=> score >= Points(75)
                /\ level = "medium" <=> (Points(50) <= score /\ score < Points(75))
                /\ level = "low" <=> score < Points(50)

\* candidates for a job reported with a high and a medium level, the high
\* one below 85
C8_Witness ==
    /\ last.op = "view"
    /\ last.view = "find_matching_candidates"
    /\ \E i \in 1..Len(last.response) :
         /\ last.response[i].match_level = "high"
         /\ last.response[i].match_score < Points(85)
    /\ \E i \in 1..Len(last.response) : last.response[i].match_level = "medium"

\* the pairs scored by the last call and the scores returned for them
ScoredPairs ==
    CASE last.op = "score" -> {<<last.cand, last.job, last.score>>}
      [] last.op = "find_best" ->
            { <<last.cand, last.calls[k].item, last.calls[k].score>> : k \in 1..Len(last.calls) }
      [] last.op = "find_candidates" ->
            { <<last.calls[k].item, last.job, last.calls[k].score>> : k \in 1..Len(last.calls) }
      [] OTHER -> {}

\* without the model, a call returns the keyword score of the pair and
\* neither invokes the model nor reads or writes the cache
KeywordOnly ==
    (~available /\ last.op \in {"score", "find_best", "find_candidates", "batch"}) =>
        /\ last.stats = [encodes |-> 0, gets |-> 0, sets |-> 0]
        /\ cache = <<>>
        /\ \A p \in ScoredPairs : p[3] = Prepared[p[1]][p[2]].keyword_score

\* C10: once available is False it stays False, and every call made then
\* returns the keyword score without invoking the model and without
\* reading or writing the cache.
C10_UnavailableForGood ==
    /\ [](KeywordOnly)
    /\ [][~available => (~available' /\ cache' = cache)]_vars

\* a call answered by the keyword path of a matcher without model
C10_Witness ==
    /\ ~available
    /\ last.op = "score"
    /\ last.path = "unavailable"
    /\ last.prev # <<>>
    /\ last.score = Points(80)

FreshScore(c, j) == ScoreWithModel(NewRun(<<>>), TRUE, Prepared[c][j], "ok").score

\* C12: with the model available, a call during which cache.get or
\* cache.set raises returns the score that a cache miss with a working
\* cache returns for the pair.
C12_CacheDownComputesFresh ==
    (last.op = "score" /\ available /\ last.env \in {"cache_down", "cache_set_down"})
        => last.score = FreshScore(last.cand, last.job)

(***************************************************************************)
(* The embedding cache on its own: a caller of _get_embedding and of       *)
(* _get_cache_key, with the history of the calls kept in last.             *)
(***************************************************************************)
MaxCalls == 3

\* the texts handed to the two methods
EmbeddingTexts == {"", "ab", "AB", " ab ", "a b", "a  b"}

Prefixes == {"embedding", "similarity_v2"}

\* encode was called once more with the text
Invoked(invoked, text) ==
    DictSet(invoked, text, IF text \in DOMAIN invoked THEN invoked[text] + 1 ELSE 1)

CacheInit ==
    /\ available \in BOOLEAN
    /\ cache = <<>>
    /\ last = [op |-> "start", calls |-> 0, invoked |-> <<>>, texts |-> {},
               cache_failed |-> FALSE, encode_failed |-> FALSE]

EmbeddingCall(text, t, env, r) ==
    /\ cache' = r.st.cache
    /\ last' = [op |-> "embedding", calls |-> last.calls + 1,
                text |-> text, env |-> env, key |-> t.cache_key,
                vector |-> r.embedding, none |-> r.none, raised |-> r.raised,
                encodes |-> r.st.encodes,
                seen |-> t.stripped \in last.texts,
                invoked |-> IF r.st.encodes > 0 THEN Invoked(last.invoked, t.stripped)
                            ELSE last.invoked,
                texts |-> last.texts \cup {t.stripped},
                cache_failed |-> last.cache_failed \/ SetRaises(env),
                encode_failed |-> last.encode_failed \/ env = "encode_fails"]
    /\ UNCHANGED available

GetEmbedding ==
    /\ last.calls < MaxCalls
    /\ \E text \in EmbeddingTexts, env \in Envs :
         \E t \in {Text(text)} :
           \E r \in {_get_embedding(NewRun(cache), available, t, env)} :
             EmbeddingCall(text, t, env, r)

GetCacheKey ==
    /\ last.calls < MaxCalls
    /\ \E text \in EmbeddingTexts, prefix \in Prefixes :
         last' = [op |-> "cache_key", calls |-> last.calls + 1,
                  text |-> text, prefix |-> prefix,
                  key |-> _get_cache_key(text, prefix),
                  prev |-> IF last.op = "cache_key"
                           THEN <<[text |-> last.text, prefix |-> last.prefix, key |-> last.key]>>
                           ELSE <<>>,
                  invoked |-> last.invoked, texts |-> last.texts,
                  cache_failed |-> last.cache_failed,
                  encode_failed |-> last.encode_failed]
    /\ UNCHANGED <<available, cache>>

CacheNext == GetEmbedding \/ GetCacheKey

CacheSpec == CacheInit /\ [][CacheNext]_vars

RECURSIVE CollapseSpaces(_)
CollapseSpaces(text) ==
    IF Len(text) < 2 THEN text
    ELSE IF Ch(text, 1) = " " /\ Ch(text, 2) = " " THEN CollapseSpaces(Slice(text, 1, Len(text)))
    ELSE Ch(text, 1) \o CollapseSpaces(Slice(text, 1, Len(text)))

Normalized(text) == CollapseSpaces(Lower(Strip(text)))

\* C14: under one purpose tag and model name, _get_cache_key gives the same
\* key to two texts that are equal after trimming, lowercasing and
\* collapsing runs of whitespace, and gives different keys to one text
\* under two purpose tags.
C14_KeyOfNormalizedText ==
    (last.op = "cache_key" /\ last.prev # <<>>) =>
        /\ (last.prefix = last.prev[1].prefix
               /\ Normalized(last.text) = Normalized(last.prev[1].text))
             => last.key = last.prev[1].key
        /\ (last.prefix # last.prev[1].prefix /\ last.text = last.prev[1].text)
             => last.key # last.prev[1].key

\* clamp to [0,100] and round to 2 decimals, of base score + adjustments
Final(rules, base_score) == Clamp(Round2(_apply_business_rules(rules, base_score)))

\* the similarity of the two texts' vectors: 0 when an encode failed or a
\* text is empty (a zero vector)
EmbeddingBase(p, degraded) ==
    IF degraded \/ p.candidate_text.stripped = "" \/ p.job_text.stripped = "" THEN 0
    ELSE SimilarityScore(Encode(p.candidate_text.stripped), Encode(p.job_text.stripped))

\* C15: a score returned with the model available (computed from the
\* embeddings, read from the score cache or returned for an empty text) and
\* a score returned by the keyword path are both clamp-and-round-2 of
\* (base score + the adjustments of _apply_business_rules), the base score
\* being the similarity score on the first path and the overlap score on
\* the second.
C15_SameAdjusterOnBothPaths ==
    (last.op = "score" /\ ~last.raised /\ ~Prepared[last.cand][last.job].rules.raises) =>
        /\ last.path \in {"embedding", "cache_hit", "empty"} =>
              last.score = Final(Prepared[last.cand][last.job].rules,
                                 EmbeddingBase(Prepared[last.cand][last.job], last.degraded))
        /\ last.path = "unavailable" =>
              last.score = Final(Prepared[last.cand][last.job].rules,
                                 KeywordBaseScore(last.cand, last.job))

(***************************************************************************)
(* The business rules and the keyword fallback on their own: a caller of   *)
(* _calculate_primary_skills_match, of calculate_job_match_score without   *)
(* the model, and of the similarity computation.                           *)
(***************************************************************************)
MaxAdded == 1

SkillPool == {"React", "vue", "css", "angular", "docker"}

\* the skill lists of at most two skills, and one of five
SkillLists ==
    {<<>>} \cup { <<a>> : a \in SkillPool } \cup { <<a, b>> : a, b \in SkillPool }
    \cup {<<"java", "vue", "css", "angular", "docker">>}

RuleCandidates ==
    { Cand(7, skills, position, "", years, <<>>) :
        skills \in SkillLists,
        position \in {"Frontend Developer", "Senior Frontend Engineer"},
        years \in {<<>>, <<6>>} }

Titles == {"DevOps Engineer", "Frontend Developer"}

RuleJobs ==
    { Job(7, title, description, requirements, level, "", "", "") :
        title \in Titles,
        description \in {"", "Angular dashboards"},
        requirements \in {"", "React and CSS. Preferred: Vue",
                          "Java, React, Vue, CSS, Angular, Docker"},
        level \in {"", "senior"} }

\* the vectors two texts can have: those of the model, and zeros
Vectors == Range(EmbeddingTable) \cup {ZeroVector}

RulesInit ==
    /\ available = FALSE
    /\ cache = <<>>
    /\ last = [op |-> "start"]

\* a caller calls _calculate_primary_skills_match
PrimarySkillsMatch ==
    /\ last.op = "start"
    /\ \E c \in RuleCandidates, j \in RuleJobs :
         last' = [op |-> "primary", cand |-> c, job |-> j, added |-> 0,
                  bonus |-> _calculate_primary_skills_match(c, j)]
    /\ UNCHANGED <<available, cache>>

\* and calls it again after one more skill was put on the skill list
AddSkill ==
    /\ last.op \in {"primary", "add_skill"}
    /\ last.added < MaxAdded
    /\ \E skill \in SkillPool :
         \E c \in {[last.cand EXCEPT !.skills = Append(@, skill)]} :
           last' = [op |-> "add_skill", cand |-> c, job |-> last.job, skill |-> skill,
                    added |-> last.added + 1,
                    before |-> last.bonus,
                    bonus |-> _calculate_primary_skills_match(c, last.job)]
    /\ UNCHANGED <<available, cache>>

\* lines 603-604: without the model the call returns what
\* _calculate_keyword_match_score returns; base is the base_score of line 865
KeywordCall(c, j, prev) ==
    \E base \in {KeywordBaseScore(c, j)} :
      \E r \in {KeywordScore(BusinessRules(c, j), base)} :
        /\ last' = [op |-> "keyword", cand |-> c, job |-> j, base |-> base,
                    score |-> r.score, raised |-> r.raised, prev |-> prev]
        /\ UNCHANGED <<available, cache>>

\* a caller without the model calls calculate_job_match_score
KeywordMatch ==
    /\ last.op = "start"
    /\ \E c \in RuleCandidates, j \in RuleJobs : KeywordCall(c, j, <<>>)

\* and calls it again for the same job under another title
KeywordMatchRetitled ==
    /\ last.op = "keyword"
    /\ last.prev = <<>>
    /\ \E title \in Titles \ {last.job.title} :
         KeywordCall(last.cand, [last.job EXCEPT !.title = title],
                     <<[job |-> last.job, score |-> last.score]>>)

\* and calls it again for the same job after one more skill was put on the
\* candidate's skill list
KeywordMatchSkillAdded ==
    /\ last.op = "keyword"
    /\ last.prev = <<>>
    /\ \E skill \in SkillPool :
         KeywordCall([last.cand EXCEPT !.skills = Append(@, skill)], last.job,
                     <<[job |-> last.job, score |-> last.score,
                        cand |-> last.cand, skill |-> skill]>>)

\* lines 631-637: the base score of two embeddings
Similarity ==
    /\ last.op = "start"
    /\ \E u \in Vectors, v \in Vectors :
         last' = [op |-> "similarity", u |-> u, v |-> v, base |-> SimilarityScore(u, v)]
    /\ UNCHANGED <<available, cache>>

PenaltyTitles ==
    {"DevOps Engineer", "Backend DevOps Engineer", "Java Backend Developer",
     "Frontend Developer", "Designer"}

PenaltySkillLists ==
    {<<>>, <<"React">>, <<"React", "Vue", "Angular">>,
     <<"React", "Vue", "Angular", "HTML", "CSS">>, <<"Java", "Spring">>}

\* a caller calls _calculate_technology_mismatch_penalty; conflict is the
\* penalty after the loop over the table (line 720), penalty the value
\* returned
MismatchPenalty ==
    /\ last.op = "start"
    /\ \E title \in PenaltyTitles, skills \in PenaltySkillLists,
          position \in {"Frontend Developer", "Backend Developer"} :
         \E c \in {Cand(7, skills, position, "", <<6>>, <<>>)},
            j \in {Job(7, title, "", "", "", "", "", "")} :
           last' = [op |-> "penalty", cand |-> c, job |-> j,
                    conflict |-> ConflictPenalty(LowerSkills(c), Lower(j.title)),
                    penalty |-> _calculate_technology_mismatch_penalty(c, j)]
    /\ UNCHANGED <<available, cache>>

BonusSkillLists == SkillLists \cup {<<"java", "vue", "css", "angular", "docker", "React">>}

BonusJobs ==
    { Job(7, title, "", requirements, "", "", "", "") :
        title \in {"React Developer", "Engineer"},
        requirements \in {"", "React and CSS. Preferred: Vue",
                          "Java, React, Vue, CSS, Angular, Docker",
                          "Nice to have: React, Vue, CSS, Angular, Docker, Java"} }

\* a caller calls _calculate_primary_skills_match and
\* _calculate_secondary_skills_match for the same records
SkillBonuses ==
    /\ last.op = "start"
    /\ \E skills \in BonusSkillLists, j \in BonusJobs :
         \E c \in {Cand(7, skills, "", "", <<6>>, <<>>)} :
           last' = [op |-> "bonuses", cand |-> c, job |-> j,
                    primary |-> _calculate_primary_skills_match(c, j),
                    secondary |-> _calculate_secondary_skills_match(c, j)]
    /\ UNCHANGED <<available, cache>>

MaxYears == 11

\* candidate_data with the key experience_years missing, with the value
\* None (<<>>) and with a number of years
YearsData ==
    {[id |-> 7]} \cup {[id |-> 7, experience_years |-> <<>>]}
    \cup { [id |-> 7, experience_years |-> <<y>>] : y \in 0..MaxYears }

Levels == KnownLevels \cup {"", "expert", "Senior"}

\* candidate_data.get('experience_years', 0)
GetExperienceYears(candidate_data) ==
    IF "experience_years" \in DOMAIN candidate_data THEN candidate_data.experience_years
    ELSE <<0>>

\* lines 662-678: the comparisons raise TypeError for None
ExperienceBonusOf(candidate_years, job_level) ==
    IF candidate_years = <<>>
    THEN [raised |-> job_level \in KnownLevels, bonus |-> 0]
    ELSE [raised |-> FALSE, bonus |-> ExperienceBonus(candidate_years[1], job_level)]

\* _apply_business_rules computes the experience bonus
ExperienceLevelBonus ==
    /\ last.op = "start"
    /\ \E candidate_data \in YearsData, level \in Levels :
         \E r \in {ExperienceBonusOf(GetExperienceYears(candidate_data), Lower(level))} :
           last' = [op |-> "experience", cand |-> candidate_data, level |-> level,
                    raised |-> r.raised, bonus |-> r.bonus]
    /\ UNCHANGED <<available, cache>>

RoleTexts ==
    {"Frontend Developer", "Backend Engineer", "Full Stack Developer", "DevOps Engineer",
     "Mobile Developer", "Data Analyst", "Teacher", ""}

RoleCall(current_position, job_title, prev) ==
    /\ last' = [op |-> "role", current_position |-> current_position, job_title |-> job_title,
                candidate_category |-> RoleCategory(Lower(current_position)),
                job_category |-> RoleCategory(Lower(job_title)),
                alignment |-> _calculate_role_alignment(
                                Cand(7, <<>>, current_position, "", <<6>>, <<>>),
                                Job(7, job_title, "", "", "", "", "", "")),
                prev |-> prev]
    /\ UNCHANGED <<available, cache>>

\* a caller calls _calculate_role_alignment
RoleAlignmentCall ==
    /\ last.op = "start"
    /\ \E current_position \in RoleTexts, job_title \in RoleTexts :
         RoleCall(current_position, job_title, <<>>)

\* and calls it again with the position and the title exchanged
RoleAlignmentSwapped ==
    /\ last.op = "role"
    /\ last.prev = <<>>
    /\ RoleCall(last.job_title, last.current_position, <<last.alignment>>)

\* n copies of a text, one after the other
RECURSIVE Repeated(_, _)
Repeated(text, n) == IF n = 0 THEN "" ELSE text \o Repeated(text, n - 1)

\* requirements texts: empty, short, with a preferred part, with a required
\* part of 640 characters, and with that and a preferred part of 491
RequirementTexts ==
    {"", "Python and Django", "Python. Nice to have: Docker",
     Repeated("python, ", 80),
     Repeated("python, ", 80) \o "Preferred: " \o Repeated("docker, ", 60)}

\* a caller calls _separate_requirements
SeparateRequirements ==
    /\ last.op = "start"
    /\ \E requirements_text \in RequirementTexts :
         \E r \in {_separate_requirements(requirements_text)} :
           last' = [op |-> "separate", requirements_text |-> requirements_text,
                    required_section |-> r[1], preferred_section |-> r[2]]
    /\ UNCHANGED <<available, cache>>

RulesNext ==
    \/ SeparateRequirements
    \/ RoleAlignmentCall
    \/ RoleAlignmentSwapped
    \/ ExperienceLevelBonus
    \/ MismatchPenalty
    \/ SkillBonuses
    \/ PrimarySkillsMatch
    \/ AddSkill
    \/ KeywordMatch
    \/ KeywordMatchRetitled
    \/ KeywordMatchSkillAdded
    \/ Similarity

RulesSpec == RulesInit /\ [][RulesNext]_vars

\* C16: one more skill that appears in the job's required text never
\* decreases the value of _calculate_primary_skills_match.
C16_PrimaryBonusMonotone ==
    (last.op = "add_skill"
       /\ Contains(Lower(last.skill), Lower(_separate_requirements(last.job.requirements)[1])))
        => last.bonus >= last.before

\* a sixth required skill, new to the list, left the bonus at the cap of 15
C16_Witness ==
    /\ last.op = "add_skill"
    /\ Contains(Lower(last.skill), Lower(_separate_requirements(last.job.requirements)[1]))
    /\ Lower(last.skill) \notin { Lower(last.cand.skills[i]) : i \in 1..(Len(last.cand.skills) - 1) }
    /\ last.before = 15 /\ last.bonus = 15

FrontendSkills == {"react", "vue", "angular", "html", "css"}

\* the candidate's position is frontend and its skills are a non-empty
\* subset of the frontend skills
FrontendCandidate(c) ==
    /\ Contains("frontend", Lower(c.current_position))
    /\ Len(c.skills) > 0
    /\ LowerSkills(c) \subseteq FrontendSkills

\* the call for 'DevOps Engineer' followed the call for 'Frontend Developer'
\* with the same candidate and the same other job fields
DevOpsAfterFrontend ==
    /\ last.op = "keyword"
    /\ last.prev # <<>>
    /\ last.job.title = "DevOps Engineer"
    /\ last.prev[1].job.title = "Frontend Developer"
    /\ FrontendCandidate(last.cand)

C19_BaseScoreInRange ==
    /\ last.op = "similarity" =>
          /\ 0 <= last.base /\ last.base <= Points(100)
          /\ IF Norm(last.u) = 0 \/ Norm(last.v) = 0 THEN last.base \in {0, Points(50)}
             ELSE last.base = ((Dot(last.u, last.v) + Norm(last.u) * Norm(last.v)) * Points(100))
                        \div (2 * Norm(last.u) * Norm(last.v))
    /\ last.op = "keyword" => (0 <= last.base /\ last.base <= Points(100))

\* no skill of the candidate occurs in the primary or the secondary text
NoSkillOccurs(c, j) ==
    LET reqs == _separate_requirements(j.requirements)
        primary_text == Lower(Lower(j.title) \o " " \o reqs[1])
        secondary_text == Lower(j.description \o " " \o reqs[2])
    IN  \A skill \in KeywordSkills(c) :
          ~Contains(skill, primary_text) /\ ~Contains(skill, secondary_text)

\* C20: in the keyword fallback a candidate with at least one skill, none
\* of which occurs in the job's primary or secondary text, has the base
\* score 10.
C20_BaselineWithoutMatches ==
    (last.op = "keyword" /\ Len(last.cand.skills) > 0 /\ NoSkillOccurs(last.cand, last.job))
        => last.base = Points(10)

\* the records the loops went through and the records in the returned list
\* are the records of the list passed in, field for field
RecordsAsPassed ==
    /\ last.op \in {"find_best", "find_candidates"} =>
          /\ Len(last.calls) = Len(RankedInput)
          /\ \A i \in 1..Len(last.calls) : last.calls[i].item = RankedInput[i]
          /\ \A i \in 1..Len(last.result) : last.result[i].item \in Range(RankedInput)
    /\ last.op = "batch" =>
          /\ DOMAIN last.result = { c.id : c \in Range(last.cands) } \ {0}
          /\ \A id \in DOMAIN last.result :
                { e.item : e \in Range(last.result[id]) } = { j.id : j \in Range(last.jobs) } \ {0}

PrimaryTextOf(j) == Lower(j.title \o " " \o _separate_requirements(j.requirements)[1])
SecondaryTextOf(j) == Lower(j.description \o " " \o _separate_requirements(j.requirements)[2])

\* the number of the distinct skills that occur in the text
Occurring(skills, text) == Cardinality({ skill \in skills : Contains(skill, text) })

\* 50 * p / n and 20 * s / n, in units
PrimaryPart(c, j) ==
    (Occurring(KeywordSkills(c), PrimaryTextOf(j)) * Points(50)) \div Cardinality(KeywordSkills(c))
SecondaryPart(c, j) ==
    (Occurring(KeywordSkills(c), SecondaryTextOf(j)) * Points(20)) \div Cardinality(KeywordSkills(c))

\* C21: in the keyword fallback a candidate with n >= 1 distinct skills, p
\* of them in the primary text and s in the secondary text, has the base
\* score 50 * p / n + 20 * s / n: between 0 and 70, the primary part at
\* most 50 and the secondary part at most 20.
C21_KeywordBaseScoreFormula ==
    (last.op = "keyword" /\ KeywordSkills(last.cand) # {}) =>
        /\ last.base = PrimaryPart(last.cand, last.job) + SecondaryPart(last.cand, last.job)
        /\ 0 <= last.base /\ last.base <= Points(70)
        /\ 0 <= PrimaryPart(last.cand, last.job) /\ PrimaryPart(last.cand, last.job) <= Points(50)
        /\ 0 <= SecondaryPart(last.cand, last.job) /\ SecondaryPart(last.cand, last.job) <= Points(20)

\* a skill listed twice and found in both texts: n = 1, base score 70
C21_Witness ==
    /\ last.op = "keyword"
    /\ Len(last.cand.skills) = 2 /\ Cardinality(KeywordSkills(last.cand)) = 1
    /\ PrimaryPart(last.cand, last.job) = Points(50)
    /\ SecondaryPart(last.cand, last.job) = Points(20)
    /\ last.base = Points(70)

\* the number of rules of the conflict table whose keyword is in the title
RulesFiring(job_title) ==
    Cardinality({ kw \in {".net", "java", "python", "devops", "frontend", "backend"} :
                    Contains(kw, Lower(job_title)) })

\* C22 as stated: the amount subtracted for conflicting skills, before the
\* fixed position penalty, is at most 25 for every title and skill set.
C22_ConflictPenaltyAtMost25 ==
    last.op = "penalty" => last.conflict <= 25

\* C22 amended: every rule whose keyword is in the title subtracts at most
\* 25, and the amounts of the rules that fire are added.
C22_ConflictPenaltyAtMost25PerRule ==
    last.op = "penalty" =>
        /\ 0 <= last.conflict
        /\ last.conflict <= 25 * RulesFiring(last.job.title)
        /\ last.penalty - last.conflict \in {0, 10, 15, 20}

\* 'Backend DevOps Engineer' and the five frontend skills: 25 + 20
C22_Witness ==
    /\ last.op = "penalty"
    /\ RulesFiring(last.job.title) = 2
    /\ Len(last.cand.skills) = 5
    /\ last.conflict = 45

\* the required and the preferred segment of the job's requirements
RequiredSegment(j) == _separate_requirements(j.requirements)[1]
PreferredSegment(j) == _separate_requirements(j.requirements)[2]

\* the distinct lowercased skills of the candidate that occur in the text
SkillsOccurring(c, text) == { skill \in LowerSkills(c) : Contains(skill, Lower(text)) }

\* C23 as stated: the primary bonus is 3 points per skill occurring in the
\* required segment, capped at 15, the secondary bonus 1 point per skill
\* occurring in the preferred segment, capped at 5; a skill in neither
\* segment contributes to neither.
C23_BonusesFromSegments ==
    last.op = "bonuses" =>
        /\ last.primary
             = Min(3 * Cardinality(SkillsOccurring(last.cand, RequiredSegment(last.job))), 15)
        /\ last.secondary
             = Min(Cardinality(SkillsOccurring(last.cand, PreferredSegment(last.job))), 5)

\* C23 amended: the primary bonus also counts the skills that occur in the
\* job title.
C23_BonusesFromTitleAndSegments ==
    last.op = "bonuses" =>
        /\ last.primary
             = Min(3 * Cardinality(SkillsOccurring(last.cand, last.job.title)
                                   \cup SkillsOccurring(last.cand, RequiredSegment(last.job))), 15)
        /\ last.secondary
             = Min(Cardinality(SkillsOccurring(last.cand, PreferredSegment(last.job))), 5)

\* six skills, one of them in the title only and all six in the preferred
\* segment: 3 and the cap of 5
C23_Witness ==
    /\ last.op = "bonuses"
    /\ Cardinality(LowerSkills(last.cand)) = 6
    /\ SkillsOccurring(last.cand, RequiredSegment(last.job)) = {}
    /\ SkillsOccurring(last.cand, last.job.title) = {"react"}
    /\ Cardinality(SkillsOccurring(last.cand, PreferredSegment(last.job))) = 6
    /\ last.primary = 3 /\ last.secondary = 5

\* the years a level asks for
InBand(years, level) ==
    \/ level = "entry" /\ years \in 0..2
    \/ level = "junior" /\ years \in 1..3
    \/ level = "mid" /\ years \in 2..6
    \/ level = "senior" /\ years >= 5
    \/ level = "lead" /\ years >= 7
    \/ level = "principal" /\ years >= 10

\* the years of the candidate of an experience call: 0 when the key is
\* missing
YearsOrZero(candidate_data) ==
    IF "experience_years" \in DOMAIN candidate_data THEN candidate_data.experience_years[1] ELSE 0

\* C24: for a candidate whose years are a number or absent, absent
\* counting as 0, the experience bonus is 5 when the years lie in the band
\* of the job's level and 0 otherwise, also for an empty or unknown level.
C24_ExperienceBonusByBand ==
    (last.op = "experience"
       /\ ("experience_years" \in DOMAIN last.cand => last.cand.experience_years # <<>>)) =>
        /\ ~last.raised
        /\ last.bonus = IF InBand(YearsOrZero(last.cand), Lower(last.level)) THEN 5 ELSE 0

\* no experience_years in the record and an entry-level job: 5
C24_Witness ==
    /\ last.op = "experience"
    /\ "experience_years" \notin DOMAIN last.cand
    /\ last.level = "entry"
    /\ ~last.raised /\ last.bonus = 5

\* C25: _calculate_role_alignment returns 8 for one category on both
\* sides, 5 for two categories one of which is fullstack, -5 for frontend
\* with backend, -2 for any other two categories and 0 when a side has no
\* category; exchanging the two sides leaves the result as it is.
C25_RoleAlignmentTable ==
    last.op = "role" =>
        /\ (last.candidate_category = "" \/ last.job_category = "") => last.alignment = 0
        /\ (last.candidate_category # "" /\ last.candidate_category = last.job_category)
             => last.alignment = 8
        /\ (last.candidate_category # "" /\ last.job_category # ""
               /\ last.candidate_category # last.job_category) =>
             last.alignment =
                IF "fullstack" \in {last.candidate_category, last.job_category} THEN 5
                ELSE IF {last.candidate_category, last.job_category} = {"frontend", "backend"} THEN -5
                ELSE -2
        /\ last.prev # <<>> => last.alignment = last.prev[1]

\* a backend position against a frontend title, after the call the other
\* way round: -5 both times
C25_Witness ==
    /\ last.op = "role"
    /\ last.candidate_category = "backend" /\ last.job_category = "frontend"
    /\ last.prev = <<-5>>
    /\ last.alignment = -5

\* C26: the required segment returned by _separate_requirements has at
\* most 600 characters and the preferred segment at most 400, also when
\* the segment was truncated.
C26_SegmentsCapped ==
    last.op = "separate" =>
        /\ Len(last.required_section) <= 600
        /\ Len(last.preferred_section) <= 400

\* C28: a call during which encode failed for one of the two texts writes
\* nothing to the score cache for the pair, and the next call for the pair,
\* made with the model working again, returns the score of a healthy
\* computation.
C28_DegradedScoreNotCached ==
    /\ (last.op = "score" /\ available /\ last.degraded)
          => Prepared[last.cand][last.job].cache_key \notin DOMAIN cache
    /\ (last.op = "score" /\ available /\ last.prev # <<>>
           /\ last.prev[1].env = "encode_fails" /\ last.env = "ok")
          => last.score = FreshScore(last.cand, last.job)

(***************************************************************************)
(* Concurrent callers of calculate_job_match_score for one pair on one     *)
(* matcher with the model loaded.  The cache is shared; every cache.get    *)
(* and cache.set is one step of its caller.  last holds the pair, what     *)
(* each caller has got so far and the values written to the pair's key of  *)
(* the score cache.                                                        *)
(***************************************************************************)
NumCallers == 2

Callers == 1..NumCallers

\* a caller: where it is, the two embeddings, the score computed and the
\* score returned (<<>> before there is one)
Caller(pc, ce, je, score, returned) ==
    [pc |-> pc, ce |-> ce, je |-> je, score |-> score, returned |-> returned]

RaceInit ==
    /\ available = TRUE
    /\ cache = <<>>
    /\ \E c \in Candidates, j \in Jobs :
         last = [op |-> "race", cand |-> c, job |-> j,
                 callers |-> [t \in Callers |-> Caller("call", <<>>, <<>>, <<>>, <<>>)],
                 written |-> {}]

\* the caller t goes on as next
Goes(t, next) ==
    /\ last' = [last EXCEPT !.callers[t] = next]
    /\ UNCHANGED <<available, cache>>

\* the caller t writes value under key and goes on as next
Sets(t, key, value, next) ==
    /\ cache' = DictSet(cache, key, value)
    /\ last' = [last EXCEPT !.callers[t] = next]
    /\ UNCHANGED available

\* lines 601-612: the texts are composed; an empty text returns 0.0
RaceCall(t, p, me) ==
    /\ me.pc = "call"
    /\ IF p.candidate_text.stripped = "" \/ p.job_text.stripped = ""
       THEN Goes(t, [me EXCEPT !.pc = "done", !.returned = <<0>>])
       ELSE Goes(t, [me EXCEPT !.pc = "get_score"])

\* lines 617-620: cache.get of the score
RaceGetScore(t, p, me) ==
    /\ me.pc = "get_score"
    /\ IF p.cache_key \in DOMAIN cache
       THEN Goes(t, [me EXCEPT !.pc = "done", !.returned = <<cache[p.cache_key]>>])
       ELSE Goes(t, [me EXCEPT !.pc = "get_candidate"])

\* lines 396-401 for the candidate text: cache.get of the embedding
RaceGetCandidateEmbedding(t, p, me) ==
    /\ me.pc = "get_candidate"
    /\ IF p.candidate_text.cache_key \in DOMAIN cache
       THEN Goes(t, [me EXCEPT !.pc = "get_job", !.ce = cache[p.candidate_text.cache_key]])
       ELSE Goes(t, [me EXCEPT !.pc = "encode_candidate"])

\* lines 405-411: encode and cache.set of the embedding
RaceEncodeCandidate(t, p, me) ==
    /\ me.pc = "encode_candidate"
    /\ Sets(t, p.candidate_text.cache_key, Encode(p.candidate_text.stripped),
            [me EXCEPT !.pc = "get_job", !.ce = Encode(p.candidate_text.stripped)])

\* the same for the job text
RaceGetJobEmbedding(t, p, me) ==
    /\ me.pc = "get_job"
    /\ IF p.job_text.cache_key \in DOMAIN cache
       THEN Goes(t, [me EXCEPT !.pc = "compute", !.je = cache[p.job_text.cache_key]])
       ELSE Goes(t, [me EXCEPT !.pc = "encode_job"])

RaceEncodeJob(t, p, me) ==
    /\ me.pc = "encode_job"
    /\ Sets(t, p.job_text.cache_key, Encode(p.job_text.stripped),
            [me EXCEPT !.pc = "compute", !.je = Encode(p.job_text.stripped)])

\* lines 631-643: similarity, business rules and clamp; when the rules
\* raise, the except branch returns the keyword score
RaceCompute(t, p, me) ==
    /\ me.pc = "compute"
    /\ IF p.rules.raises
       THEN Goes(t, [me EXCEPT !.pc = "done", !.returned = <<p.keyword_score>>])
       ELSE Goes(t, [me EXCEPT !.pc = "set_score",
                               !.score = <<Clamp(_apply_business_rules(
                                            p.rules, SimilarityScore(me.ce, me.je)))>>])

\* line 646: cache.set of the score
RaceSetScore(t, p, me) ==
    /\ me.pc = "set_score"
    /\ cache' = DictSet(cache, p.cache_key, me.score[1])
    /\ last' = [last EXCEPT !.callers[t] = [me EXCEPT !.pc = "return"],
                            !.written = @ \cup {me.score[1]}]
    /\ UNCHANGED available

\* line 648: return round(score, 2)
RaceReturn(t, p, me) ==
    /\ me.pc = "return"
    /\ Goes(t, [me EXCEPT !.pc = "done", !.returned = <<Round2(me.score[1])>>])

CallStarts == \E t \in Callers : RaceCall(t, Prepared[last.cand][last.job], last.callers[t])
ScoreGot == \E t \in Callers : RaceGetScore(t, Prepared[last.cand][last.job], last.callers[t])
CandidateEmbeddingGot ==
    \E t \in Callers : RaceGetCandidateEmbedding(t, Prepared[last.cand][last.job], last.callers[t])
CandidateEncoded ==
    \E t \in Callers : RaceEncodeCandidate(t, Prepared[last.cand][last.job], last.callers[t])
JobEmbeddingGot ==
    \E t \in Callers : RaceGetJobEmbedding(t, Prepared[last.cand][last.job], last.callers[t])
JobEncoded == \E t \in Callers : RaceEncodeJob(t, Prepared[last.cand][last.job], last.callers[t])
ScoreComputed == \E t \in Callers : RaceCompute(t, Prepared[last.cand][last.job], last.callers[t])
ScoreSet == \E t \in Callers : RaceSetScore(t, Prepared[last.cand][last.job], last.callers[t])
ScoreReturned == \E t \in Callers : RaceReturn(t, Prepared[last.cand][last.job], last.callers[t])

RaceNext ==
    \/ CallStarts
    \/ ScoreGot
    \/ CandidateEmbeddingGot
    \/ CandidateEncoded
    \/ JobEmbeddingGot
    \/ JobEncoded
    \/ ScoreComputed
    \/ ScoreSet
    \/ ScoreReturned

RaceSpec == RaceInit /\ [][RaceNext]_vars

\* the cache one call leaves when it runs alone on an empty cache
SequentialCache(c, j) == ScoreWithModel(NewRun(<<>>), TRUE, Prepared[c][j], "ok").st.cache

\* C27: under every interleaving of the concurrent calls for one pair,
\* every value written to the pair's key of the score cache is the same,
\* every caller returns the same score, and when all have returned the
\* cache holds what one sequential call leaves.
C27_ConcurrentCallsAgree ==
    last.op = "race" =>
        /\ Cardinality(last.written) <= 1
        /\ \A a, b \in Callers :
              (last.callers[a].pc = "done" /\ last.callers[b].pc = "done")
                  => last.callers[a].returned = last.callers[b].returned
        /\ (\A t \in Callers : last.callers[t].pc = "done")
              => cache = SequentialCache(last.cand, last.job)

(***************************************************************************)
(* The global matcher accessors, get_semantic_matcher and get_matcher,     *)
(* called by concurrent threads.  Reading and writing the module global is *)
(* one step each; the constructor runs between them.  last holds the two   *)
(* globals (0 is None, n > 0 the n-th instance constructed), the number of *)
(* instances constructed and what each thread is doing.                    *)
(***************************************************************************)
NumThreads == 2

Threads == 1..NumThreads

Accessors == {"get_semantic_matcher", "get_matcher"}

Thread(pc, accessor, made, got) ==
    [pc |-> pc, accessor |-> accessor, made |-> made, got |-> got]

SingletonInit ==
    /\ available = TRUE
    /\ cache = <<>>
    /\ last = [op |-> "singleton",
               instance |-> [a \in Accessors |-> 0],
               constructed |-> [a \in Accessors |-> 0],
               threads |-> [t \in Threads |-> Thread("idle", "", 0, 0)]]

\* a thread calls one of the accessors for the first time
AccessorCalled ==
    /\ \E t \in Threads, a \in Accessors :
         /\ last.threads[t].pc = "idle"
         /\ last' = [last EXCEPT !.threads[t] = Thread("check", a, 0, 0)]
    /\ UNCHANGED <<available, cache>>

\* if _instance is None
InstanceChecked ==
    /\ \E t \in Threads :
         /\ last.threads[t].pc = "check"
         /\ last' = [last EXCEPT !.threads[t].pc =
                        IF last.instance[last.threads[t].accessor] = 0
                        THEN "construct" ELSE "return"]
    /\ UNCHANGED <<available, cache>>

\* SemanticJobMatcher() or JobCandidateMatcher() returns a new instance
MatcherConstructed ==
    /\ \E t \in Threads :
         /\ last.threads[t].pc = "construct"
         /\ last' = [last EXCEPT
                        !.constructed[last.threads[t].accessor] = @ + 1,
                        !.threads[t].made = last.constructed[last.threads[t].accessor] + 1,
                        !.threads[t].pc = "assign"]
    /\ UNCHANGED <<available, cache>>

\* JobCandidateMatcher() raises when the model cannot be loaded, and
\* get_matcher raises it again; SemanticJobMatcher() catches it
MatcherConstructionFails ==
    /\ \E t \in Threads :
         /\ last.threads[t].pc = "construct"
         /\ last.threads[t].accessor = "get_matcher"
         /\ last' = [last EXCEPT !.threads[t].pc = "raised"]
    /\ UNCHANGED <<available, cache>>

\* _instance = the instance constructed
InstanceAssigned ==
    /\ \E t \in Threads :
         /\ last.threads[t].pc = "assign"
         /\ last' = [last EXCEPT !.instance[last.threads[t].accessor] = last.threads[t].made,
                                 !.threads[t].pc = "return"]
    /\ UNCHANGED <<available, cache>>

\* return _instance
InstanceReturned ==
    /\ \E t \in Threads :
         /\ last.threads[t].pc = "return"
         /\ last' = [last EXCEPT !.threads[t].got = last.instance[last.threads[t].accessor],
                                 !.threads[t].pc = "done"]
    /\ UNCHANGED <<available, cache>>

SingletonNext ==
    \/ AccessorCalled
    \/ InstanceChecked
    \/ MatcherConstructed
    \/ MatcherConstructionFails
    \/ InstanceAssigned
    \/ InstanceReturned

SingletonSpec == SingletonInit /\ [][SingletonNext]_vars

\* C29: under every interleaving of concurrent first calls of an accessor
\* at most one matcher is constructed and all callers get the same
\* instance.
C29_OneInstance ==
    last.op = "singleton" =>
        /\ \A a \in Accessors : last.constructed[a] <= 1
        /\ \A t, u \in Threads :
              (last.threads[t].pc = "done" /\ last.threads[u].pc = "done"
                 /\ last.threads[t].accessor = last.threads[u].accessor)
                  => last.threads[t].got = last.threads[u].got

\* the skills the conflict table lists for the rules the job title fires
ConflictingSkills(job_title) ==
    UNION { stack_conflicts(Lower(job_title))[i][2] :
              i \in { k \in 1..Len(stack_conflicts(Lower(job_title))) :
                        Contains(stack_conflicts(Lower(job_title))[k][1], Lower(job_title)) } }

\* the keyword call was repeated with one more skill, which occurs in the
\* job's required text and is no conflicting skill for the job title
RequiredSkillAdded ==
    /\ last.op = "keyword"
    /\ last.prev # <<>>
    /\ "skill" \in DOMAIN last.prev[1]
    /\ Contains(Lower(last.prev[1].skill), Lower(RequiredSegment(last.job)))
    /\ Lower(last.prev[1].skill) \notin ConflictingSkills(last.job.title)

\* C30: without the model, one more skill on the candidate's skill list
\* that occurs in the job's required text and does not conflict with the
\* job title never lowers the score calculate_job_match_score returns for
\* that job.
C30_SkillAddedNeverLowers ==
    RequiredSkillAdded => last.score >= last.prev[1].score

====
